---- MODULE Spec2Model ----
(***************************************************************************)
(* Model of imagefinder.py: the extraction loop, the greedy clustering     *)
(* loop of find_duplicate_images, and delete_duplicates (listing, prompt,  *)
(* deletion loop), together with the file system the program acts on.      *)
(*                                                                         *)
(* A path is a natural number: image_files is <<1, ..., n>>, the order of  *)
(* the directory walk.  A fingerprint is the set of the bit positions that *)
(* are 1 in the hash_size x hash_size average hash, position 1 being the   *)
(* lowest bit.  A dict is a sequence of entries in insertion order, as     *)
(* Python's dict is.                                                       *)
(***************************************************************************)
EXTENDS Integers, Sequences, FiniteSets, TLC

VARIABLES
    pc,                   \* position in main: hash, cluster, plan, list, prompt, delete, done, aborted
    image_files,          \* find_duplicate_images: the walk's result
    similarity_threshold, \* find_duplicate_images: parameter
    file_hashes,          \* find_duplicate_images: dict path -> hash
    file_list,            \* find_duplicate_images: list(file_hashes.items())
    i,                    \* index of the loop that is running (1-based)
    duplicates,           \* defaultdict(list): original -> [(duplicate, distance)]
    processed,            \* find_duplicate_images: set of claimed paths
    interactive,          \* delete_duplicates: parameter
    files_to_delete,      \* delete_duplicates: list of paths
    response,             \* delete_duplicates: the normalised answer
    deleted_count,        \* delete_duplicates
    total_size_freed,     \* delete_duplicates
    fs,                   \* the file system: path -> present, gone, locked
    external,             \* number of events caused by other processes so far
    decode_errors,        \* paths reported in an "Error processing" line
    records,              \* paths that produced a record (kept for the report)
    removed,              \* paths the program's os.remove removed
    attempted,            \* paths the deletion loop has tried
    delete_errors,        \* number of "Error deleting" lines printed
    answer,               \* what the user typed at the prompt
    prompted              \* whether input() was called

vars == <<pc, image_files, similarity_threshold, file_hashes, file_list, i,
          duplicates, processed, interactive, files_to_delete, response,
          deleted_count, total_size_freed, fs, external, decode_errors,
          records, removed, attempted, delete_errors, answer, prompted>>

-----------------------------------------------------------------------------
(* Bounds of the model *)

MaxFiles == 4

MaxHash == 3

MaxThreshold == 2

MaxExternal == 1

(* Program constants *)

hash_size == 8

-----------------------------------------------------------------------------
(* Inputs *)

Paths == 1..MaxFiles

\* the bits that are 1 in the binary numeral of k
BitsOfNumber(k) == {b \in 1..hash_size : (k \div (2 ^ (b - 1))) % 2 = 1}

\* the fingerprints of the model: those whose numeral is at most MaxHash
Hashes == {BitsOfNumber(k) : k \in 0..MaxHash}

None == [none |-> TRUE, bits |-> {}]

ImageHash(bits) == [none |-> FALSE, bits |-> bits]

\* what get_image_hash can return for a file
DecodeOutcomes == {None} \cup {ImageHash(b) : b \in Hashes}

\* int(arg) accepts any integer, negative ones included
Thresholds == -1..MaxThreshold

\* what the user may type at the prompt, as sequences of characters
Responses ==
    { <<"y","e","s">>, <<" ","Y","E","S"," ">>, <<"Y","\t">>,
      <<"n","o">>, <<"N">>, <<>>, <<"y","e">>, <<"y"," ","e","s">> }

-----------------------------------------------------------------------------
(* Helpers: dicts in insertion order *)

Range(s) == {s[k] : k \in 1..Len(s)}

HasKey(d, key) == \E k \in 1..Len(d) : d[k][1] = key

\* d[key] = value
DictSet(d, key, value) ==
    IF HasKey(d, key)
    THEN [k \in 1..Len(d) |-> IF d[k][1] = key THEN <<key, value>> ELSE d[k]]
    ELSE Append(d, <<key, value>>)

\* defaultdict(list): d[key].append(item)
DictAppend(d, key, item) ==
    IF HasKey(d, key)
    THEN [k \in 1..Len(d) |->
            IF d[k][1] = key THEN <<key, Append(d[k][2], item)>> ELSE d[k]]
    ELSE Append(d, <<key, <<item>>>>)

-----------------------------------------------------------------------------
(* get_image_hash and the extraction loop *)

\* a bug: the None check of line 58 is missing
StoreHashUnchecked(fh, image_path, img_hash) == DictSet(fh, image_path, img_hash)

\* lines 58-59: a None hash adds no entry
StoreHash(fh, image_path, img_hash) ==
    IF img_hash.none THEN fh ELSE DictSet(fh, image_path, img_hash)

-----------------------------------------------------------------------------
(* hamming_distance and the clustering loop *)

\* a bug: only the bits set in hash1 and clear in hash2 are counted
OneSidedDistance(hash1, hash2) == Cardinality(hash1.bits \ hash2.bits)

\* ImageHash.__sub__: the number of bit positions in which the hashes differ
hamming_distance(hash1, hash2) ==
    Cardinality((hash1.bits \ hash2.bits) \cup (hash2.bits \ hash1.bits))

\* a bug: the check of line 69 is missing
AnchorNeverSkipped(file1, proc) == FALSE

\* line 69: if file1 in processed: continue
AnchorSkipped(file1, proc) == file1 \in proc

\* line 73: if file2 in processed: continue
CandidateSkipped(file2, proc) == file2 \in proc

\* a bug: < for <=
StrictlySimilar(distance, threshold) == distance < threshold

\* line 78: if distance <= similarity_threshold
Similar(distance, threshold) == distance <= threshold

\* a bug: the duplicate is not marked
NotMarked(proc, file2) == proc

\* line 80: processed.add(file2)
MarkProcessed(proc, file2) == proc \cup {file2}

\* lines 72-80: the inner loop over file_list[i+1:], from position j on
RECURSIVE InnerLoop(_, _, _, _, _, _)
InnerLoop(fl, a, j, dups, proc, threshold) ==
    IF j > Len(fl)
    THEN [duplicates |-> dups, processed |-> proc]
    ELSE LET file1 == fl[a][1]
             hash1 == fl[a][2]
             file2 == fl[j][1]
             hash2 == fl[j][2]
             distance == hamming_distance(hash1, hash2)
         IN  IF CandidateSkipped(file2, proc)
             THEN InnerLoop(fl, a, j + 1, dups, proc, threshold)
             ELSE IF Similar(distance, threshold)
                  THEN InnerLoop(fl, a, j + 1,
                                 DictAppend(dups, file1, <<file2, distance>>),
                                 MarkProcessed(proc, file2), threshold)
                  ELSE InnerLoop(fl, a, j + 1, dups, proc, threshold)

\* a bug: the slice starts one position too far, file_list[i + 2:]
OuterIterationOffByOne(fl, a, dups, proc, threshold) ==
    IF fl[a][1] \in proc
    THEN [duplicates |-> dups, processed |-> proc]
    ELSE InnerLoop(fl, a, a + 2, dups, proc, threshold)

\* lines 68-80: one iteration of the outer loop, for position a
OuterIteration(fl, a, dups, proc, threshold) ==
    IF AnchorSkipped(fl[a][1], proc)
    THEN [duplicates |-> dups, processed |-> proc]
    ELSE InnerLoop(fl, a, a + 1, dups, proc, threshold)

\* lines 63-82: the whole clustering loop, from position a on
RECURSIVE ClusterFrom(_, _, _, _, _)
ClusterFrom(fl, a, dups, proc, threshold) ==
    IF a > Len(fl)
    THEN [duplicates |-> dups, processed |-> proc]
    ELSE LET st == OuterIteration(fl, a, dups, proc, threshold)
         IN  ClusterFrom(fl, a + 1, st.duplicates, st.processed, threshold)

\* the dict find_duplicate_images returns for a list of records and a threshold
FindDuplicates(fl, threshold) == ClusterFrom(fl, 1, <<>>, {}, threshold).duplicates

-----------------------------------------------------------------------------
(* delete_duplicates *)

Whitespace == {" ", "\t"}

\* str.strip(): drop the leading and the trailing whitespace
RECURSIVE LStrip(_)
LStrip(s) ==
    IF s # <<>> /\ Head(s) \in Whitespace THEN LStrip(Tail(s)) ELSE s

RECURSIVE RStrip(_)
RStrip(s) ==
    IF s # <<>> /\ s[Len(s)] \in Whitespace
    THEN RStrip(SubSeq(s, 1, Len(s) - 1))
    ELSE s

Strip(s) == RStrip(LStrip(s))

LowerChar(c) ==
    CASE c = "Y" -> "y"
      [] c = "E" -> "e"
      [] c = "S" -> "s"
      [] c = "N" -> "n"
      [] c = "O" -> "o"
      [] OTHER -> c

\* str.lower()
Lower(s) == [k \in 1..Len(s) |-> LowerChar(s[k])]

\* lines 126-130: input(...).strip().lower()
Normalise(typed) == Lower(Strip(typed))

\* a bug: everything but a refusal is taken for consent
AcceptedUnlessNo(resp) == resp \notin {<<"n","o">>, <<"n">>}

\* line 131: response in ["yes", "y"]
Accepted(resp) == resp \in {<<"y","e","s">>, <<"y">>}

\* line 98: sum(len(dupes) for dupes in duplicates.values())
RECURSIVE TotalDuplicates(_)
TotalDuplicates(d) ==
    IF d = <<>> THEN 0 ELSE Len(Head(d)[2]) + TotalDuplicates(Tail(d))

\* os.path.getsize raises when the file is not there
SizeFails(files, p) == files[p] = "gone"

\* os.path.getsize of a file that is there
get_file_size(p) == p

\* lines 117-121: the paths one group adds to files_to_delete, up to the first
\* duplicate whose get_file_size raises
RECURSIVE ListedOf(_, _)
ListedOf(dupes, files) ==
    IF dupes = <<>> \/ SizeFails(files, Head(dupes)[1])
    THEN <<>>
    ELSE <<Head(dupes)[1]>> \o ListedOf(Tail(dupes), files)

\* a bug: the original is listed for deletion with its duplicates
GroupTargetsWithOriginal(group, files) == <<group[1]>> \o ListedOf(group[2], files)

\* lines 117-121: what listing one group appends to files_to_delete
GroupTargets(group, files) == ListedOf(group[2], files)

\* lines 112-121: whether listing the group raises
ListingFails(group, files) ==
    \/ SizeFails(files, group[1])
    \/ \E k \in 1..Len(group[2]) : SizeFails(files, group[2][k][1])

\* lines 112-119: the files delete_duplicates looks at
PlanFiles(d) ==
    UNION {{d[k][1]} \cup {d[k][2][m][1] : m \in 1..Len(d[k][2])} : k \in 1..Len(d)}

\* lines 140-141: get_file_size and os.remove both succeed
RemoveSucceeds(files, p) == files[p] = "present"

-----------------------------------------------------------------------------
(* State machine: find_duplicate_images *)

Init ==
    /\ pc = "hash"
    /\ \E n \in 0..MaxFiles : image_files = [k \in 1..n |-> k]
    /\ similarity_threshold \in Thresholds
    /\ file_hashes = <<>>
    /\ file_list = <<>>
    /\ i = 1
    /\ duplicates = <<>>
    /\ processed = {}
    /\ interactive \in BOOLEAN
    /\ files_to_delete = <<>>
    /\ response = <<>>
    /\ deleted_count = 0
    /\ total_size_freed = 0
    /\ fs = [p \in Paths |-> "present"]
    /\ external = 0
    /\ decode_errors = {}
    /\ records = {}
    /\ removed = {}
    /\ attempted = {}
    /\ delete_errors = 0
    /\ answer = <<>>
    /\ prompted = FALSE

\* lines 54-59: one iteration of the extraction loop
HashStep ==
    /\ pc = "hash"
    /\ i <= Len(image_files)
    /\ \E img_hash \in DecodeOutcomes :
         /\ file_hashes' = StoreHash(file_hashes, image_files[i], img_hash)
         /\ decode_errors' = IF img_hash.none
                             THEN decode_errors \cup {image_files[i]}
                             ELSE decode_errors
    /\ i' = i + 1
    /\ UNCHANGED <<pc, image_files, similarity_threshold, file_list, duplicates,
                   processed, interactive, files_to_delete, response,
                   deleted_count, total_size_freed, fs, external, records,
                   removed, attempted, delete_errors, answer, prompted>>

\* lines 61-66: the extraction loop is over; set up the clustering loop
HashDone ==
    /\ pc = "hash"
    /\ i > Len(image_files)
    /\ duplicates' = <<>>
    /\ processed' = {}
    /\ file_list' = file_hashes
    /\ records' = {file_hashes[k][1] : k \in 1..Len(file_hashes)}
    /\ i' = 1
    /\ pc' = "cluster"
    /\ UNCHANGED <<image_files, similarity_threshold, file_hashes, interactive,
                   files_to_delete, response, deleted_count, total_size_freed,
                   fs, external, decode_errors, removed, attempted,
                   delete_errors, answer, prompted>>

\* lines 68-80: one iteration of the outer clustering loop
ClusterStep ==
    /\ pc = "cluster"
    /\ i <= Len(file_list)
    /\ LET st == OuterIteration(file_list, i, duplicates, processed,
                                similarity_threshold)
       IN  /\ duplicates' = st.duplicates
           /\ processed' = st.processed
    /\ i' = i + 1
    /\ UNCHANGED <<pc, image_files, similarity_threshold, file_hashes, file_list,
                   interactive, files_to_delete, response, deleted_count,
                   total_size_freed, fs, external, decode_errors, records,
                   removed, attempted, delete_errors, answer, prompted>>

\* line 82 and line 203: find_duplicate_images returns its dict, its locals die,
\* and main calls delete_duplicates
ClusterReturn ==
    /\ pc = "cluster"
    /\ i > Len(file_list)
    /\ pc' = "plan"
    /\ image_files' = <<>>
    /\ file_hashes' = <<>>
    /\ file_list' = <<>>
    /\ processed' = {}
    /\ i' = 1
    /\ UNCHANGED <<similarity_threshold, duplicates, interactive,
                   files_to_delete, response, deleted_count, total_size_freed,
                   fs, external, decode_errors, records, removed, attempted,
                   delete_errors, answer, prompted>>

\* lines 98-110: nothing to do without duplicates; otherwise start the listing
DeleteEntry ==
    /\ pc = "plan"
    /\ pc' = IF TotalDuplicates(duplicates) = 0 THEN "done" ELSE "list"
    /\ files_to_delete' = <<>>
    /\ i' = 1
    /\ UNCHANGED <<image_files, similarity_threshold, file_hashes, file_list,
                   duplicates, processed, interactive, response, deleted_count,
                   total_size_freed, fs, external, decode_errors, records,
                   removed, attempted, delete_errors, answer, prompted>>

\* lines 112-121: list one group; get_file_size is called outside any try, so
\* a missing file raises out of delete_duplicates and main
ListStep ==
    /\ pc = "list"
    /\ i <= Len(duplicates)
    /\ LET group == duplicates[i]
       IN  /\ files_to_delete' =
                IF SizeFails(fs, group[1])
                THEN files_to_delete
                ELSE files_to_delete \o GroupTargets(group, fs)
           /\ pc' = IF ListingFails(group, fs) THEN "aborted" ELSE "list"
    /\ i' = i + 1
    /\ UNCHANGED <<image_files, similarity_threshold, file_hashes, file_list,
                   duplicates, processed, interactive, response, deleted_count,
                   total_size_freed, fs, external, decode_errors, records,
                   removed, attempted, delete_errors, answer, prompted>>

\* lines 123-125 and 135-136: the listing is over
ListDone ==
    /\ pc = "list"
    /\ i > Len(duplicates)
    /\ pc' = IF interactive THEN "prompt" ELSE "delete"
    /\ i' = 1
    /\ deleted_count' = 0
    /\ total_size_freed' = 0
    /\ UNCHANGED <<image_files, similarity_threshold, file_hashes, file_list,
                   duplicates, processed, interactive, files_to_delete,
                   response, fs, external, decode_errors, records, removed,
                   attempted, delete_errors, answer, prompted>>

\* lines 126-133: ask for confirmation
Prompt ==
    /\ pc = "prompt"
    /\ \E typed \in Responses :
         /\ answer' = typed
         /\ response' = Normalise(typed)
         /\ pc' = IF Accepted(Normalise(typed)) THEN "delete" ELSE "done"
    /\ prompted' = TRUE
    /\ UNCHANGED <<image_files, similarity_threshold, file_hashes, file_list, i,
                   duplicates, processed, interactive, files_to_delete,
                   deleted_count, total_size_freed, fs, external,
                   decode_errors, records, removed, attempted, delete_errors>>

\* lines 138-146: one iteration of the deletion loop
DeleteStep ==
    /\ pc = "delete"
    /\ i <= Len(files_to_delete)
    /\ LET file_path == files_to_delete[i]
       IN  /\ attempted' = attempted \cup {file_path}
           /\ IF RemoveSucceeds(fs, file_path)
              THEN /\ fs' = [fs EXCEPT ![file_path] = "gone"]
                   /\ removed' = removed \cup {file_path}
                   /\ deleted_count' = deleted_count + 1
                   /\ total_size_freed' = total_size_freed + get_file_size(file_path)
                   /\ UNCHANGED delete_errors
              ELSE /\ delete_errors' = delete_errors + 1
                   /\ UNCHANGED <<fs, removed, deleted_count, total_size_freed>>
    /\ i' = i + 1
    /\ UNCHANGED <<pc, image_files, similarity_threshold, file_hashes, file_list,
                   duplicates, processed, interactive, files_to_delete,
                   response, external, decode_errors, records, answer, prompted>>

\* lines 148-150: the deletion loop is over
DeleteDone ==
    /\ pc = "delete"
    /\ i > Len(files_to_delete)
    /\ pc' = "done"
    /\ UNCHANGED <<image_files, similarity_threshold, file_hashes, file_list, i,
                   duplicates, processed, interactive, files_to_delete,
                   response, deleted_count, total_size_freed, fs, external,
                   decode_errors, records, removed, attempted, delete_errors,
                   answer, prompted>>

\* another process removes a file of the plan, or takes away the right to
\* remove it, at any moment after the plan was computed (the program looks
\* at no other file from then on)
External ==
    /\ pc \in {"plan", "list", "prompt", "delete"}
    /\ external < MaxExternal
    /\ \E p \in PlanFiles(duplicates), what \in {"gone", "locked"} :
         /\ fs[p] = "present"
         /\ fs' = [fs EXCEPT ![p] = what]
    /\ external' = external + 1
    /\ UNCHANGED <<pc, image_files, similarity_threshold, file_hashes, file_list,
                   i, duplicates, processed, interactive, files_to_delete,
                   response, deleted_count, total_size_freed, decode_errors,
                   records, removed, attempted, delete_errors, answer, prompted>>

Next ==
    \/ HashStep
    \/ HashDone
    \/ ClusterStep
    \/ ClusterReturn
    \/ DeleteEntry
    \/ ListStep
    \/ ListDone
    \/ Prompt
    \/ DeleteStep
    \/ DeleteDone
    \/ External

Spec == Init /\ [][Next]_vars

-----------------------------------------------------------------------------
(* Vocabulary of the properties *)

\* the clustering loop has run to its end and its locals are still alive
Clustered == pc = "cluster" /\ i > Len(file_list)

\* the originals of a plan
Originals(d) == {d[k][1] : k \in 1..Len(d)}

\* every (cluster, position) of a duplicate entry of a plan
DupeSlots(d) == UNION {{<<k, m>> : m \in 1..Len(d[k][2])} : k \in 1..Len(d)}

\* the path and the distance of a duplicate entry
DupePath(d, sl) == d[sl[1]][2][sl[2]][1]

DupeDistance(d, sl) == d[sl[1]][2][sl[2]][2]

\* the paths listed as duplicates in a plan
PlanDupes(d) == {DupePath(d, sl) : sl \in DupeSlots(d)}

\* the number of positions in which two fingerprints differ: those set in
\* one of them and not in both
BitsDiffering(b1, b2) == Cardinality((b1 \cup b2) \ (b1 \cap b2))

\* the fingerprint of the record of a path
BitsOf(fl, path) == fl[CHOOSE k \in 1..Len(fl) : fl[k][1] = path][2].bits

\* the distance between the records at two positions of a list
Dist(fl, a, b) == BitsDiffering(fl[a][2].bits, fl[b][2].bits)

-----------------------------------------------------------------------------
(* C1 *)

\* C1: each record is in at most one cluster: no path is listed as a
\* duplicate twice, in one cluster or in two, no two clusters have the same
\* original, and no original of a cluster is listed as a duplicate.  (The
\* dict does not change once find_duplicate_images has returned it.)
C1_AtMostOneCluster ==
    pc \in {"cluster", "plan"} =>
    /\ \A s1 \in DupeSlots(duplicates), s2 \in DupeSlots(duplicates) :
         s1 # s2 => DupePath(duplicates, s1) # DupePath(duplicates, s2)
    /\ \A k1 \in 1..Len(duplicates), k2 \in 1..Len(duplicates) :
         k1 # k2 => duplicates[k1][1] # duplicates[k2][1]
    /\ Originals(duplicates) \cap PlanDupes(duplicates) = {}

\* the loop has ended with two clusters, the second original enumerated
\* after a record the first cluster claimed
C1_Witness ==
    /\ Clustered
    /\ Len(duplicates) = 2
    /\ \E p \in PlanDupes(duplicates) : p < duplicates[2][1]

-----------------------------------------------------------------------------
(* C2 *)

\* C2: the program removes only paths listed as duplicates in the plan: no
\* original of a cluster and no singleton (a record in no cluster) is removed.
C2_OnlyDuplicatesRemoved ==
    /\ removed \subseteq PlanDupes(duplicates)
    /\ removed \cap Originals(duplicates) = {}
    /\ removed \cap (records \ PlanDupes(duplicates)) = {}

\* a run that removed a duplicate, failed on another, and left an original
\* and a singleton in place
C2_Witness ==
    /\ pc = "done"
    /\ removed # {}
    /\ delete_errors > 0
    /\ records \ (PlanDupes(duplicates) \cup Originals(duplicates)) # {}
    /\ \A p \in records \ PlanDupes(duplicates) : fs[p] = "present"

-----------------------------------------------------------------------------
(* C3 *)

\* C3: every (duplicate, distance) entry of a cluster records the Hamming
\* distance between the duplicate's fingerprint and the fingerprint of the
\* cluster's original, and that distance is at most similarity_threshold.
C3_DistanceToOriginal ==
    pc = "cluster" =>
        \A sl \in DupeSlots(duplicates) :
            /\ DupeDistance(duplicates, sl) =
                 BitsDiffering(BitsOf(file_list, duplicates[sl[1]][1]),
                               BitsOf(file_list, DupePath(duplicates, sl)))
            /\ DupeDistance(duplicates, sl) <= similarity_threshold

\* the loop has ended with a duplicate at a distance of 0 and another at a
\* distance equal to a threshold of at least 1
C3_Witness ==
    /\ Clustered
    /\ similarity_threshold >= 1
    /\ \E s1 \in DupeSlots(duplicates), s2 \in DupeSlots(duplicates) :
         /\ DupeDistance(duplicates, s1) = 0
         /\ DupeDistance(duplicates, s2) = similarity_threshold

-----------------------------------------------------------------------------
(* C4 *)

\* the number of clusters the clusterer produces for a list and a threshold
ClusterCount(fl, threshold) == Len(FindDuplicates(fl, threshold))

\* the pairwise distances of a list
PairDistances(fl) ==
    {Dist(fl, ab[1], ab[2]) :
        ab \in {p \in (1..Len(fl)) \X (1..Len(fl)) : p[1] < p[2]}}

\* whether a threshold is at least every pairwise distance of the list
CoversAllPairs(fl, threshold) == \A d \in PairDistances(fl) : d <= threshold

\* C4 as stated: for a fixed ordered input the number of clusters is
\* non-increasing in the threshold (thresholds >= 0, as the contract has
\* them): the run under similarity_threshold ends with at most as many
\* clusters as the clusterer produces under any lower threshold.
C4_CountNonIncreasing ==
    Clustered =>
        \A t1 \in Thresholds :
            0 <= t1 /\ t1 <= similarity_threshold =>
                Len(duplicates) <= ClusterCount(file_list, t1)

\* C4 as amended: for an input of at least two records and a threshold that
\* is at least the maximum pairwise distance, the clusterer produces exactly
\* one cluster, whose original is the first record and whose duplicates are
\* all the others; so its count is at most the count under any lower
\* threshold that yields a cluster.
C4_CollapseAtMaxDistance ==
    Clustered /\ Len(file_list) >= 2
        /\ CoversAllPairs(file_list, similarity_threshold) =>
            /\ Len(duplicates) = 1
            /\ duplicates[1][1] = file_list[1][1]
            /\ Len(duplicates[1][2]) = Len(file_list) - 1
            /\ \A t1 \in Thresholds :
                 t1 <= similarity_threshold /\ ClusterCount(file_list, t1) >= 1 =>
                     Len(duplicates) <= ClusterCount(file_list, t1)

\* the loop has ended with one cluster under a threshold that covers all
\* pairs, for records that form two clusters under a lower threshold
C4_Witness ==
    /\ Clustered
    /\ CoversAllPairs(file_list, similarity_threshold)
    /\ Len(duplicates) = 1
    /\ \E t1 \in Thresholds :
         t1 < similarity_threshold /\ ClusterCount(file_list, t1) = 2

-----------------------------------------------------------------------------
(* C5 *)

\* the original of the cluster a path is in, as original or as duplicate
ClustersOf(d, path) ==
    {k \in 1..Len(d) :
        \/ d[k][1] = path
        \/ \E m \in 1..Len(d[k][2]) : d[k][2][m][1] = path}

\* C5: under a threshold >= 0, two records whose fingerprints are at
\* distance 0 end up in the same cluster, whatever the other records are.
C5_IdenticalClusteredTogether ==
    Clustered /\ similarity_threshold >= 0 =>
        \A a \in 1..Len(file_list), b \in 1..Len(file_list) :
            a < b /\ Dist(file_list, a, b) = 0 =>
                /\ ClustersOf(duplicates, file_list[a][1]) # {}
                /\ ClustersOf(duplicates, file_list[a][1]) =
                     ClustersOf(duplicates, file_list[b][1])

\* two records at distance 0, not adjacent, both duplicates of an original
\* with another fingerprint
C5_Witness ==
    /\ Clustered
    /\ \E a \in 1..Len(file_list), b \in 1..Len(file_list) :
         /\ b > a + 1
         /\ Dist(file_list, a, b) = 0
         /\ Dist(file_list, 1, a) > 0
         /\ {file_list[a][1], file_list[b][1]} \subseteq PlanDupes(duplicates)

-----------------------------------------------------------------------------
(* C6 *)

\* C6: the clusterer is greedy and not transitive.  A record claimed as a
\* duplicate is never an anchor: no original of a cluster is in processed.
\* For three records A, B, C with d(A,B) <= threshold < d(A,C), the result is
\* exactly one cluster, original A with duplicates [(B, d(A,B))], and C is in
\* no cluster, whatever d(B,C) is.
C6_GreedyNotTransitive ==
    pc = "cluster" =>
        /\ Originals(duplicates) \cap processed = {}
        /\ Clustered /\ Len(file_list) = 3
             /\ Dist(file_list, 1, 2) <= similarity_threshold
             /\ Dist(file_list, 1, 3) > similarity_threshold
           => duplicates =
                << <<file_list[1][1],
                     << <<file_list[2][1], Dist(file_list, 1, 2)>> >> >> >>

\* three records with d(A,B) <= threshold, d(B,C) <= threshold < d(A,C):
\* B is A's duplicate and C is in no cluster
C6_Witness ==
    /\ Clustered
    /\ Len(file_list) = 3
    /\ Dist(file_list, 1, 2) <= similarity_threshold
    /\ Dist(file_list, 2, 3) <= similarity_threshold
    /\ Dist(file_list, 1, 3) > similarity_threshold
    /\ ClustersOf(duplicates, file_list[3][1]) = {}
    /\ Len(duplicates) = 1

-----------------------------------------------------------------------------
(* C10 *)

\* C10: once the loop has ended, any two records not listed as duplicates
\* (the originals and the singletons) are farther apart than the threshold.
C10_SurvivorsFarApart ==
    Clustered =>
        \A a \in 1..Len(file_list), b \in 1..Len(file_list) :
            /\ a # b
            /\ file_list[a][1] \notin PlanDupes(duplicates)
            /\ file_list[b][1] \notin PlanDupes(duplicates)
            => Dist(file_list, a, b) > similarity_threshold

\* under a threshold of at least 1, an original and a singleton survive and
\* two duplicates do not
C10_Witness ==
    /\ Clustered
    /\ similarity_threshold >= 1
    /\ Len(duplicates) = 1
    /\ Cardinality(PlanDupes(duplicates)) = 2
    /\ Cardinality(records \ PlanDupes(duplicates)) = 2

-----------------------------------------------------------------------------
(* C7 *)

\* deletion was not refused: there was something to delete and, in
\* interactive mode, the user consented
DeletionDue ==
    /\ TotalDuplicates(duplicates) > 0
    /\ interactive => prompted /\ Accepted(response)

\* the files another process removed or locked
ExternallyTouched == {p \in Paths : fs[p] # "present" /\ p \notin removed}

\* C7: a per-file failure on the finalized plan (a file that another process
\* removed or locked at any moment after the plan was computed) never aborts
\* the run: the run does not end in an uncaught exception, and a run that ends
\* has attempted every duplicate of the plan and counted every removal.
C7_FailureNeverAborts ==
    /\ ExternallyTouched \subseteq PlanDupes(duplicates) => pc # "aborted"
    /\ pc = "done" /\ DeletionDue =>
          /\ attempted = PlanDupes(duplicates)
          /\ deleted_count = Cardinality(removed)
          /\ deleted_count + delete_errors = Cardinality(PlanDupes(duplicates))

-----------------------------------------------------------------------------
(* C8 *)

\* the position of a path in the walk's result
WalkIndex(path) == CHOOSE k \in 1..Len(image_files) : image_files[k] = path

\* a dict's keys are in the walk's order
InWalkOrder(d) ==
    \A a \in 1..Len(d), b \in 1..Len(d) :
        a < b => WalkIndex(d[a][1]) < WalkIndex(d[b][1])

\* C8: a file whose decoding fails yields no record and does not stop the
\* batch: the number of records is the number of files handled minus the
\* decode failures, the records are the other files in enumeration order,
\* and no failed file is the original or a duplicate of a cluster.
C8_DecodeFailureSkipped ==
    /\ pc = "hash" =>
          /\ Len(file_hashes) = (i - 1) - Cardinality(decode_errors)
          /\ \A k \in 1..Len(file_hashes) : ~file_hashes[k][2].none
          /\ InWalkOrder(file_hashes)
    /\ pc = "cluster" =>
          /\ Len(file_list) = Len(image_files) - Cardinality(decode_errors)
          /\ \A k \in 1..Len(file_list) : ~file_list[k][2].none
          /\ {file_list[k][1] : k \in 1..Len(file_list)} =
                Range(image_files) \ decode_errors
          /\ InWalkOrder(file_list)
          /\ Originals(duplicates) \cup PlanDupes(duplicates)
                \subseteq {file_list[k][1] : k \in 1..Len(file_list)}
    /\ pc = "plan" =>
          /\ records \cap decode_errors = {}
          /\ (Originals(duplicates) \cup PlanDupes(duplicates)) \cap decode_errors = {}

\* MaxFiles files, the second of them corrupt, give MaxFiles - 1 records, and
\* the first record has claimed one enumerated after the corrupt file
C8_Witness ==
    /\ Clustered
    /\ Len(image_files) = MaxFiles
    /\ decode_errors = {image_files[2]}
    /\ Len(file_list) = MaxFiles - 1
    /\ Len(duplicates) >= 1
    /\ duplicates[1][1] = image_files[1]
    /\ image_files[3] \in PlanDupes(duplicates)

-----------------------------------------------------------------------------
(* C9 *)

UpperOf(c) ==
    CASE c = "y" -> "Y"
      [] c = "e" -> "E"
      [] c = "s" -> "S"

\* a text is a word, up to the case of its letters
IsWord(text, word) ==
    /\ Len(text) = Len(word)
    /\ \A k \in 1..Len(word) : text[k] \in {word[k], UpperOf(word[k])}

\* what was typed is yes or y, whatever the case, between any whitespace
SaidYes(typed) ==
    \E lo \in 1..(Len(typed) + 1), hi \in 0..Len(typed) :
        /\ \A k \in 1..Len(typed) : (k < lo \/ k > hi) => typed[k] \in {" ", "\t"}
        /\ \/ IsWord(SubSeq(typed, lo, hi), <<"y","e","s">>)
           \/ IsWord(SubSeq(typed, lo, hi), <<"y">>)

\* delete_duplicates has been entered and has passed its first check
PastEntry == pc \in {"list", "prompt", "delete", "done", "aborted"}

\* C9: no file is removed without authorization.  In interactive mode a file
\* is removed only after the user answered yes or y (any case, any
\* surrounding whitespace); any other answer ends the run with nothing
\* removed; without --auto nothing is removed before the prompt; and a plan
\* without duplicates ends the run with no prompt and no removal in both modes.
C9_NoRemovalWithoutConsent ==
    /\ interactive /\ (removed # {} \/ attempted # {} \/ pc = "delete") => prompted
    /\ prompted =>
          \/ pc = "done" /\ removed = {} /\ attempted = {}
          \/ SaidYes(answer)
    /\ ~interactive => ~prompted
    /\ PastEntry /\ TotalDuplicates(duplicates) = 0 =>
          pc = "done" /\ ~prompted /\ removed = {} /\ attempted = {}

\* an interactive run that removed a file after the answer " YES "
C9_Witness ==
    /\ pc = "done"
    /\ interactive
    /\ answer = <<" ","Y","E","S"," ">>
    /\ removed # {}

====
